---- MODULE Spec2Model ----
(***************************************************************************)
(* Model of the Borderlands 4 save-file codec (src/src/utils/              *)
(* saveDecryptor.ts): key derivation, PKCS7 padding, Adler-32, and the     *)
(* encryptSave / decryptSave pipelines around the external AES-ECB and     *)
(* zlib primitives.                                                        *)
(*                                                                         *)
(* Strings are sequences of UTF-16 code units (0..65535), byte buffers     *)
(* are sequences of 0..255.  A JavaScript number that may leave the range  *)
(* of a 32-bit checker integer is kept as a pair <<q, r>> standing for     *)
(* q * 65536 + r with r in 0..65535.                                       *)
(***************************************************************************)
EXTENDS Integers, Sequences, FiniteSets, TLC

VARIABLES
    call, arg, ret, raised,    \* a call of one of the exported pure helpers
    userID, libs, inflateTail, \* the environment of encryptSave / decryptSave
    text, file,                \* the YAML text and the .sav bytes
    pc, cipherIn, decrypted,   \* pipeline position, the buffers at the cipher
    pt, padOK,                 \* the unpadded buffer, whether the padding matched
    trimIdx, inflated, trimUsed, inflateLog,
    outcome, output

vars == <<call, arg, ret, raised, userID, libs, inflateTail, text, file, pc, cipherIn,
          decrypted, pt, padOK, trimIdx, inflated, trimUsed, inflateLog, outcome, output>>

codecVars == <<userID, libs, inflateTail, text, file, pc, cipherIn, decrypted, pt, padOK,
               trimIdx, inflated, trimUsed, inflateLog, outcome, output>>

helperVars == <<call, arg, ret, raised>>

----------------------------------------------------------------------------
(* Bounds of the model *)

\* longest run of one repeated digit at the start of an identity
MaxRun == 18
\* longest free suffix of an identity
MaxTail == 2
\* longest text handed to encryptSave, in UTF-16 code units
MaxText == 2
\* longest payload inside a crafted save file, in UTF-16 code units
MaxPayload == 1
\* longest buffer handed to pkcs7Pad (the claim's 0..64)
MaxBuf == 64
\* longest buffer handed to adler32 (beyond 257 both sums wrap modulo 65521)
MaxChecksumLen == 258

----------------------------------------------------------------------------
(* Generic helpers *)

Min(a, b) == IF a < b THEN a ELSE b

\* a function on 1..n as an explicit sequence
ToSeq(f) == f \o <<>>

\* n copies of v
Fill(n, v) == ToSeq([i \in 1..n |-> v])

\* s[from..to) with 0-based offsets, as Uint8Array.subarray clamps them
SubArray(s, from, to) ==
    LET t == Min(to, Len(s))
    IN  IF t <= from THEN <<>> ELSE SubSeq(s, from + 1, t)

RECURSIVE XorBits(_, _, _)
XorBits(a, b, n) ==
    IF n = 0 THEN 0
    ELSE (((a % 2) + (b % 2)) % 2) + 2 * XorBits(a \div 2, b \div 2, n - 1)

RECURSIVE OrBits(_, _, _)
OrBits(a, b, n) ==
    IF n = 0 THEN 0
    ELSE (IF (a % 2) + (b % 2) > 0 THEN 1 ELSE 0) + 2 * OrBits(a \div 2, b \div 2, n - 1)

Xor8_Or(a, b) == OrBits(a, b, 8)

\* k[i] ^= uid_bytes[i] on a Uint8Array element
Xor8(a, b) == XorBits(a, b, 8)

----------------------------------------------------------------------------
(* Key derivation *)

BASE_KEY ==
    << 53, 236,  51, 119, 243,  93, 176, 234, 190, 107, 131,  17,  84,   3, 235, 251,
       39,  37, 100,  46, 213,  73,   6,  41,   5, 120, 189,  96, 186,  74, 167, 135 >>

\* code & 0xff, (code >> 8) & 0xff for every code unit
RECURSIVE utf16leBytes(_)
utf16leBytes(str) ==
    IF str = <<>> THEN <<>>
    ELSE <<Head(str) % 256, (Head(str) \div 256) % 256>> \o utf16leBytes(Tail(str))

IsAsciiDigit(c) == c >= 48 /\ c <= 57

SteamPattern_Sixteen(str) == Len(str) >= 16 /\ \A i \in 1..Len(str) : IsAsciiDigit(str[i])

\* /^\d{17,}$/.test(userID)
SteamPattern(str) == Len(str) >= 17 /\ \A i \in 1..Len(str) : IsAsciiDigit(str[i])

\* n * m + c on an arbitrary-precision natural kept as little-endian bytes
RECURSIVE BigMulAdd(_, _, _)
BigMulAdd(n, m, c) ==
    IF n = <<>>
    THEN IF c = 0 THEN <<>> ELSE <<c % 256>> \o BigMulAdd(<<>>, m, c \div 256)
    ELSE LET v == Head(n) * m + c
         IN  <<v % 256>> \o BigMulAdd(Tail(n), m, v \div 256)

\* BigInt(userID) for a string of decimal digits
RECURSIVE BigIntAcc(_, _)
BigIntAcc(str, acc) ==
    IF str = <<>> THEN acc
    ELSE BigIntAcc(Tail(str), BigMulAdd(acc, 10, Head(str) - 48))

BigInt(str) == BigIntAcc(str, <<>>)

\* eight rounds of uid_bytes.push(Number(sid & 0xffn)); sid >>= 8n
SteamBytes(str) ==
    LET sid == BigInt(str)
    IN  ToSeq([i \in 1..8 |-> IF i <= Len(sid) THEN sid[i] ELSE 0])

\* const k = new Uint8Array(BASE_KEY)
KeyCopy_Zeroed == Fill(Len(BASE_KEY), 0)

KeyCopy == BASE_KEY

deriveKey(id) ==
    LET k == KeyCopy
        uid_bytes == IF SteamPattern(id) THEN SteamBytes(id) ELSE utf16leBytes(id)
        n == Min(Len(k), Len(uid_bytes))
    IN  ToSeq([i \in 1..Len(k) |-> IF i <= n THEN Xor8(k[i], uid_bytes[i]) ELSE k[i]])

----------------------------------------------------------------------------
(* PKCS7 padding *)

BlockSize == 16

\* the check loop of pkcs7Unpad: for i = 1..pad, buf[buf.length - i] === pad;
\* an index below 0 reads undefined, which is never equal to pad
PadMatches(buf) ==
    LET pad == buf[Len(buf)]
    IN  \A i \in 1..pad : Len(buf) - i >= 0 /\ buf[Len(buf) - i + 1] = pad

pkcs7Unpad_AlwaysStrip(buf) ==
    IF buf = <<>> THEN <<>> ELSE SubArray(buf, 0, Len(buf) - buf[Len(buf)])

\* of an empty buffer pad is undefined: the loop body never runs and
\* new Uint8Array(NaN) is the empty buffer
pkcs7Unpad(buf) ==
    IF buf = <<>> THEN <<>>
    ELSE IF ~PadMatches(buf) THEN buf
    ELSE SubArray(buf, 0, Len(buf) - buf[Len(buf)])

pkcs7Pad_ZeroWhenAligned(buf, blockSize) ==
    LET pad == (blockSize - (Len(buf) % blockSize)) % blockSize
    IN  buf \o Fill(pad, pad % 256)

pkcs7Pad(buf, blockSize) ==
    LET pad == blockSize - (Len(buf) % blockSize)
    IN  buf \o Fill(pad, pad % 256)

----------------------------------------------------------------------------
(* Adler-32 *)

AdlerMod == 65521

\* the loop body of adler32 on the pair <<a, b>> and the byte x
AdlerStep(ab, x) ==
    LET a2 == (ab[1] + x) % AdlerMod
        b2 == (ab[2] + a2) % AdlerMod
    IN  <<a2, b2>>

\* the loop of adler32 from index i (1-based) on, from the pair ab
RECURSIVE AdlerLoop(_, _, _)
AdlerLoop(buf, i, ab) ==
    IF i > Len(buf) THEN ab ELSE AdlerLoop(buf, i + 1, AdlerStep(ab, buf[i]))

\* b << 16 as a 32-bit signed integer <<q, r>>
ShiftLeft16(b) ==
    LET low == b % 65536
    IN  <<IF low >= 32768 THEN low - 65536 ELSE low, 0>>

\* x | a where the low half of x is zero and a < 65536
OrLow16(x, a) == <<x[1], a>>

Unsigned_Dropped(x) == x

\* x >>> 0
Unsigned(x) == <<x[1] % 65536, x[2]>>

\* return ((b << 16) | a) >>> 0
AdlerResult(ab) == Unsigned(OrLow16(ShiftLeft16(ab[2]), ab[1]))

adler32(buf) == AdlerResult(AdlerLoop(buf, 1, <<1, 0>>))

\* (x >> (8 * k)) & 0xff for k = 0..3 on a number <<q, r>>
ByteOf(x, k) ==
    IF k = 0 THEN x[2] % 256
    ELSE IF k = 1 THEN (x[2] \div 256) % 256
    ELSE IF k = 2 THEN x[1] % 256
    ELSE (x[1] \div 256) % 256

----------------------------------------------------------------------------
(* Text encoding (TextEncoder / TextDecoder) *)

IsHighSurrogate(c) == c >= 55296 /\ c <= 56319
IsLowSurrogate(c) == c >= 56320 /\ c <= 57343

\* the UTF-8 bytes of one code point
Utf8OfCodePoint(cp) ==
    IF cp < 128 THEN <<cp>>
    ELSE IF cp < 2048 THEN <<192 + (cp \div 64), 128 + (cp % 64)>>
    ELSE IF cp < 65536
         THEN <<224 + (cp \div 4096), 128 + ((cp \div 64) % 64), 128 + (cp % 64)>>
    ELSE <<240 + (cp \div 262144), 128 + ((cp \div 4096) % 64),
           128 + ((cp \div 64) % 64), 128 + (cp % 64)>>

\* new TextEncoder().encode(str): a surrogate pair is one code point, an
\* unpaired surrogate is replaced by U+FFFD
RECURSIVE TextEncode(_)
TextEncode(str) ==
    IF str = <<>> THEN <<>>
    ELSE LET c == Head(str)
         IN  IF IsHighSurrogate(c) /\ Len(str) >= 2 /\ IsLowSurrogate(str[2])
             THEN Utf8OfCodePoint(65536 + (c - 55296) * 1024 + (str[2] - 56320))
                      \o TextEncode(Tail(Tail(str)))
             ELSE IF IsHighSurrogate(c) \/ IsLowSurrogate(c)
             THEN Utf8OfCodePoint(65533) \o TextEncode(Tail(str))
             ELSE Utf8OfCodePoint(c) \o TextEncode(Tail(str))

\* the UTF-16 code units of one decoded code point
Utf16OfCodePoint(cp) ==
    IF cp < 65536 THEN <<cp>>
    ELSE <<55296 + ((cp - 65536) \div 1024), 56320 + ((cp - 65536) % 1024)>>

\* how many continuation bytes the lead byte b asks for (0 when b is no lead)
Utf8Needed(b) ==
    IF b >= 194 /\ b <= 223 THEN 1
    ELSE IF b >= 224 /\ b <= 239 THEN 2
    ELSE IF b >= 240 /\ b <= 244 THEN 3
    ELSE 0

\* the range allowed for the first continuation byte after the lead byte b
Utf8Lower(b) == IF b = 224 THEN 160 ELSE IF b = 240 THEN 144 ELSE 128
Utf8Upper(b) == IF b = 237 THEN 159 ELSE IF b = 244 THEN 143 ELSE 191

\* how many of the `needed` continuation bytes after position 1 are valid
RECURSIVE Utf8ValidTail(_, _, _)
Utf8ValidTail(bytes, k, needed) ==
    IF k > needed \/ Len(bytes) < k + 1 THEN k - 1
    ELSE LET lo == IF k = 1 THEN Utf8Lower(bytes[1]) ELSE 128
             hi == IF k = 1 THEN Utf8Upper(bytes[1]) ELSE 191
         IN  IF bytes[k + 1] >= lo /\ bytes[k + 1] <= hi
             THEN Utf8ValidTail(bytes, k + 1, needed)
             ELSE k - 1

Utf8CodePoint(bytes, needed) ==
    IF needed = 1 THEN (bytes[1] - 192) * 64 + (bytes[2] - 128)
    ELSE IF needed = 2
         THEN (bytes[1] - 224) * 4096 + (bytes[2] - 128) * 64 + (bytes[3] - 128)
    ELSE (bytes[1] - 240) * 262144 + (bytes[2] - 128) * 4096
             + (bytes[3] - 128) * 64 + (bytes[4] - 128)

\* the UTF-8 decoder: an ill-formed sequence gives one U+FFFD for its longest
\* valid prefix and decoding resumes at the offending byte
RECURSIVE Utf8Decode(_)
Utf8Decode(bytes) ==
    IF bytes = <<>> THEN <<>>
    ELSE LET b == Head(bytes)
             needed == Utf8Needed(b)
             valid == Utf8ValidTail(bytes, 1, needed)
         IN  IF b < 128 THEN <<b>> \o Utf8Decode(Tail(bytes))
             ELSE IF needed = 0 THEN <<65533>> \o Utf8Decode(Tail(bytes))
             ELSE IF valid < needed
             THEN <<65533>> \o Utf8Decode(SubSeq(bytes, valid + 2, Len(bytes)))
             ELSE Utf16OfCodePoint(Utf8CodePoint(bytes, needed))
                      \o Utf8Decode(SubSeq(bytes, needed + 2, Len(bytes)))

\* new TextDecoder().decode(bytes): ignoreBOM is false by default, so a
\* leading U+FEFF is removed from the output
TextDecode(bytes) ==
    LET units == Utf8Decode(bytes)
    IN  IF units # <<>> /\ units[1] = 65279 THEN Tail(units) ELSE units

----------------------------------------------------------------------------
(* The zlib primitive (pako) *)

ZlibMagic == 120

\* a number below 65536 as the pair <<q, r>>
Wide(n) == <<n \div 65536, n % 65536>>

\* pako.deflate(bytes, {level: 9}): a zlib stream, header 0x78 0xDA, the data
\* in one final stored block, the Adler-32 of the data big-endian
Deflate(bytes) ==
    LET n == Len(bytes)
        sum == adler32(bytes)
    IN  <<ZlibMagic, 218, 1, n % 256, n \div 256, 255 - (n % 256), 255 - (n \div 256)>>
            \o bytes
            \o <<ByteOf(sum, 3), ByteOf(sum, 2), ByteOf(sum, 1), ByteOf(sum, 0)>>

\* pako.inflate(bytes): <<data>> on success, <<>> when it throws.  Bytes that
\* follow a complete stream are accepted or rejected as acceptTail says.
Inflate(bytes, acceptTail) ==
    IF Len(bytes) < 11 THEN <<>>
    ELSE LET n == bytes[4] + 256 * bytes[5]
             headerOK == /\ bytes[1] % 16 = 8 /\ bytes[1] \div 16 <= 7
                         /\ (bytes[1] * 256 + bytes[2]) % 31 = 0
                         /\ (bytes[2] \div 32) % 2 = 0
             blockOK == /\ bytes[3] = 1
                        /\ bytes[6] = 255 - bytes[4] /\ bytes[7] = 255 - bytes[5]
                        /\ Len(bytes) >= 11 + n
         IN  IF ~(headerOK /\ blockOK) THEN <<>>
             ELSE LET data == SubSeq(bytes, 8, 7 + n)
                      sum == adler32(data)
                      sumOK == SubSeq(bytes, 8 + n, 11 + n)
                                  = <<ByteOf(sum, 3), ByteOf(sum, 2), ByteOf(sum, 1), ByteOf(sum, 0)>>
                  IN  IF ~sumOK THEN <<>>
                      ELSE IF Len(bytes) > 11 + n /\ ~acceptTail THEN <<>>
                      ELSE <<data>>

----------------------------------------------------------------------------
(* The block cipher (CryptoJS) and its WordArray *)

\* (b0 << 24) | (b1 << 16) | (b2 << 8) | b3 as a 32-bit signed integer; a byte
\* read past the end is undefined and shifts to 0
PackWord(u8arr, i) ==
    LET at(j) == IF j <= Len(u8arr) THEN u8arr[j] ELSE 0
        b0 == at(i)
    IN  (IF b0 >= 128 THEN b0 - 256 ELSE b0) * 16777216
            + at(i + 1) * 65536 + at(i + 2) * 256 + at(i + 3)

uint8ArrayToWordArray(u8arr) ==
    [words |-> ToSeq([w \in 1..((Len(u8arr) + 3) \div 4) |-> PackWord(u8arr, 4 * (w - 1) + 1)]),
     sigBytes |-> Len(u8arr)]

\* (w >> 24) & 0xff, (w >> 16) & 0xff, (w >> 8) & 0xff, w & 0xff per word
WordsToBytes(words) ==
    ToSeq([j \in 1..(4 * Len(words)) |->
        LET w == words[((j - 1) \div 4) + 1]
            k == (j - 1) % 4
        IN  IF k = 0 THEN (w \div 16777216) % 256
            ELSE IF k = 1 THEN (w \div 65536) % 256
            ELSE IF k = 2 THEN (w \div 256) % 256
            ELSE w % 256])

\* the byte a 32-byte key adds at position j of a 16-byte block
KeyByte(key, j) ==
    LET i == ((j - 1) % 16) + 1 IN (key[i] + key[i + 16] + i) % 256

\* the keyed bijection on every 16-byte block, the same for each block;
\* sign is 1 to encrypt and -1 to decrypt
EcbBlocks(data, key, sign) ==
    ToSeq([j \in 1..Len(data) |-> (data[j] + sign * KeyByte(key, j)) % 256])

\* CryptoJS.AES.encrypt(words, key, {ECB, NoPadding}).ciphertext
AesEncrypt(dataWords, keyWords) ==
    uint8ArrayToWordArray(
        EcbBlocks(WordsToBytes(dataWords.words), WordsToBytes(keyWords.words), 1))

\* CryptoJS.AES.decrypt({ciphertext: words}, key, {ECB, NoPadding})
AesDecrypt(dataWords, keyWords) ==
    uint8ArrayToWordArray(
        EcbBlocks(WordsToBytes(dataWords.words), WordsToBytes(keyWords.words), -1))

----------------------------------------------------------------------------
(* encryptSave and decryptSave *)

PackContainer_AdlerOnly(comp, adler, uncompressedLen) ==
    comp \o <<ByteOf(adler, 0), ByteOf(adler, 1), ByteOf(adler, 2), ByteOf(adler, 3)>>

\* packed = comp, then adler32 and the uncompressed length, 4 bytes each,
\* least significant byte first
PackContainer(comp, adler, uncompressedLen) ==
    comp \o <<ByteOf(adler, 0), ByteOf(adler, 1), ByteOf(adler, 2), ByteOf(adler, 3)>>
         \o <<ByteOf(uncompressedLen, 0), ByteOf(uncompressedLen, 1),
              ByteOf(uncompressedLen, 2), ByteOf(uncompressedLen, 3)>>

\* the buffer encryptSave hands to the cipher
EncryptPlain(yamlContent) ==
    LET yamlBytes == TextEncode(yamlContent)
        comp == Deflate(yamlBytes)
        adler == adler32(yamlBytes)
        uncompressedLen == Wide(Len(yamlBytes))
    IN  pkcs7Pad(PackContainer(comp, adler, uncompressedLen), BlockSize)

\* the bytes of the Blob encryptSave returns
EncryptBytes(pt_padded, id) ==
    LET keyWordArray == uint8ArrayToWordArray(deriveKey(id))
        encrypted == AesEncrypt(uint8ArrayToWordArray(pt_padded), keyWordArray)
    IN  WordsToBytes(encrypted.words)

\* decryptSave up to "Remove possible extra bytes": the decrypted buffer cut
\* to the length of the file
DecryptBytes(ciph, id) ==
    LET keyWordArray == uint8ArrayToWordArray(deriveKey(id))
        decryptedWords == AesDecrypt(uint8ArrayToWordArray(ciph), keyWordArray)
    IN  SubArray(WordsToBytes(decryptedWords.words), 0, Len(ciph))

TrimOptions_Reversed == <<8, 4>>

TrimOptions == <<4, 8>>

\* one round of the trim loop.  threw: an exception reached the catch;
\* called: pako.inflate was invoked; ok: it returned, with data
TrimAttempt_NoMagicCheck(buf, trim, acceptTail) ==
    LET candidateLen == Len(buf) - trim
        candidate == SubArray(buf, 0, candidateLen)
        r == Inflate(candidate, acceptTail)
    IN  IF candidateLen < 0
        THEN [threw |-> TRUE, called |-> FALSE, ok |-> FALSE, data |-> <<>>]
        ELSE IF r = <<>>
        THEN [threw |-> TRUE, called |-> TRUE, ok |-> FALSE, data |-> <<>>]
        ELSE [threw |-> FALSE, called |-> TRUE, ok |-> TRUE, data |-> r[1]]

TrimAttempt(buf, trim, acceptTail) ==
    LET candidateLen == Len(buf) - trim
        candidate == SubArray(buf, 0, candidateLen)
        r == Inflate(candidate, acceptTail)
    IN  IF candidateLen < 0
        \* new Uint8Array(candidateLen) throws a RangeError
        THEN [threw |-> TRUE, called |-> FALSE, ok |-> FALSE, data |-> <<>>]
        \* candidate[0] of an empty candidate is undefined
        ELSE IF candidate = <<>> \/ candidate[1] # ZlibMagic
        THEN [threw |-> FALSE, called |-> FALSE, ok |-> FALSE, data |-> <<>>]
        ELSE IF r = <<>>
        THEN [threw |-> TRUE, called |-> TRUE, ok |-> FALSE, data |-> <<>>]
        ELSE [threw |-> FALSE, called |-> TRUE, ok |-> TRUE, data |-> r[1]]

----------------------------------------------------------------------------
(* Inputs fed to the model *)

\* '0' and '9'
RunChars == {48, 57}
\* '0', '9', 'c', U+0000, U+0661 (a digit that is not an ASCII digit)
TailChars == {48, 57, 99, 0, 1633}

RECURSIVE SeqsUpTo(_, _)
SeqsUpTo(S, n) ==
    IF n = 0 THEN {<<>>}
    ELSE LET shorter == SeqsUpTo(S, n - 1)
         IN  shorter \cup {Append(s, c) : s \in shorter, c \in S}

Identities ==
    {Fill(k, d) \o t : k \in 0..MaxRun, d \in RunChars, t \in SeqsUpTo(TailChars, MaxTail)}


\* bytes that matter to padding: 0, small pad values, a full block, 17, 255
PadBytes == {0, 2, 3, 16, 17, 255}
PadBuffers ==
    {Fill(n, v) \o Fill(m, w) : n \in 0..MaxBuf, m \in 0..2, v \in {0, 16, 17}, w \in PadBytes}

\* utf8("Wikipedia")
Wikipedia == <<87, 105, 107, 105, 112, 101, 100, 105, 97>>
ChecksumBuffers ==
    {Fill(n, 255) : n \in 0..MaxChecksumLen}
        \cup {Fill(n, v) \o t : n \in 0..MaxTail, v \in {0, 1, 120}, t \in {<<>>, <<1>>}}
        \cup {Wikipedia}


\* 'a', U+00E9, U+FEFF (the byte order mark), and the surrogates of U+1F600
TextUnits == {97, 233, 65279, 55357, 56832}

\* every surrogate of str is half of a pair
PairedSurrogates(str) ==
    \A i \in 1..Len(str) :
        /\ (str[i] >= 55296 /\ str[i] <= 56319)
              => (i < Len(str) /\ str[i + 1] >= 56320 /\ str[i + 1] <= 57343)
        /\ (str[i] >= 56320 /\ str[i] <= 57343)
              => (i > 1 /\ str[i - 1] >= 55296 /\ str[i - 1] <= 56319)

\* the texts handed to encryptSave: well-formed UTF-16
Texts == {t \in SeqsUpTo(TextUnits, MaxText) : PairedSurrogates(t)}

\* no identity, the Epic identity "c", a Steam identity of seventeen nines
CodecIds == {<<>>, <<99>>, Fill(17, 57)}

\* crafted plaintexts: a zlib stream (sound, with a wrong first byte, or with
\* a wrong checksum), no trailer, a 4-byte or an 8-byte trailer, then sound
\* PKCS7 padding, none, or a damaged one; and very short buffers
Payloads == {TextEncode(t) : t \in SeqsUpTo(TextUnits, MaxPayload)}

LE32(x) == <<ByteOf(x, 0), ByteOf(x, 1), ByteOf(x, 2), ByteOf(x, 3)>>

StreamsOf(payload) ==
    LET d == Deflate(payload)
    IN  {d, [d EXCEPT ![1] = 121], [d EXCEPT ![Len(d)] = (d[Len(d)] + 1) % 256]}

TrailersOf(payload) ==
    {<<>>, <<1, 2, 3, 7>>, LE32(adler32(payload)),
     LE32(adler32(payload)) \o LE32(Wide(Len(payload)))}

PaddingsOf(c) ==
    LET padded == pkcs7Pad(c, BlockSize)
        n == Len(padded)
    IN  {padded, [padded EXCEPT ![n] = 255], [padded EXCEPT ![n - 1] = 0]}
            \cup (IF c # <<>> /\ Len(c) % BlockSize = 0 THEN {c} ELSE {})

ContainersOf(payload) ==
    {st \o tr : st \in StreamsOf(payload), tr \in TrailersOf(payload)}

Plains ==
    UNION {PaddingsOf(c) : c \in UNION {ContainersOf(payload) : payload \in Payloads}}
        \cup {pkcs7Pad(Fill(k, ZlibMagic), BlockSize) : k \in 0..9}
        \cup {<<>>}

SaveFiles == {EncryptBytes(plain, id) : plain \in Plains, id \in CodecIds \ {<<>>}}

----------------------------------------------------------------------------
(* The helper harness: one call of an exported helper on a chosen input *)

CodecIdle ==
    /\ userID = <<>> /\ libs = FALSE /\ inflateTail = FALSE
    /\ text = <<>> /\ file = <<>> /\ pc = "off" /\ cipherIn = <<>>
    /\ decrypted = <<>> /\ pt = <<>>
    /\ padOK = TRUE /\ trimIdx = 0 /\ inflated = <<>> /\ trimUsed = 0
    /\ inflateLog = <<>> /\ outcome = "none" /\ output = <<>>

InitKey ==
    /\ call = "none" /\ arg \in Identities /\ ret = <<>> /\ raised = "none"
    /\ CodecIdle

\* deriveKey(arg): the function has no throw statement and BigInt() is only
\* reached with a string of digits, so the call always returns
CallDeriveKey ==
    /\ call = "none"
    /\ call' = "deriveKey"
    /\ ret' = deriveKey(arg)
    /\ raised' = "none"
    /\ UNCHANGED <<arg, codecVars>>

NextKey == CallDeriveKey

SpecKey == InitKey /\ [][NextKey]_vars

\* second identities of a pair: no run, or a run of 15 or 16 zeros, and at
\* most one free character
PairRuns == {0, 15, 16}
SecondIdentities ==
    {Fill(k, 48) \o t : k \in PairRuns, t \in SeqsUpTo(TailChars, 1)}

InitPair ==
    /\ call = "none" /\ arg \in Identities \X SecondIdentities
    /\ ret = <<>> /\ raised = "none"
    /\ CodecIdle

\* deriveKey on each identity of the pair
CallDeriveKeyPair ==
    /\ call = "none"
    /\ call' = "deriveKeys"
    /\ ret' = <<deriveKey(arg[1]), deriveKey(arg[2])>>
    /\ raised' = "none"
    /\ UNCHANGED <<arg, codecVars>>

NextPair == CallDeriveKeyPair

SpecPair == InitPair /\ [][NextPair]_vars

InitPad ==
    /\ call = "none" /\ arg \in PadBuffers /\ ret = <<>> /\ raised = "none"
    /\ CodecIdle

\* pkcs7Pad(arg) with the default block size
CallPkcs7Pad ==
    /\ call = "none"
    /\ call' = "pkcs7Pad"
    /\ ret' = pkcs7Pad(arg, BlockSize)
    /\ raised' = "none"
    /\ UNCHANGED <<arg, codecVars>>

\* pkcs7Unpad of what pkcs7Pad(arg) returned
CallPkcs7UnpadOfPadded ==
    /\ call = "pkcs7Pad"
    /\ call' = "padUnpad"
    /\ ret' = pkcs7Unpad(ret)
    /\ raised' = "none"
    /\ UNCHANGED <<arg, codecVars>>

\* pkcs7Unpad(arg) on an arbitrary buffer
CallPkcs7Unpad ==
    /\ call = "none"
    /\ call' = "pkcs7Unpad"
    /\ ret' = pkcs7Unpad(arg)
    /\ raised' = "none"
    /\ UNCHANGED <<arg, codecVars>>

NextPad == CallPkcs7Pad \/ CallPkcs7UnpadOfPadded \/ CallPkcs7Unpad

SpecPad == InitPad /\ [][NextPad]_vars

InitAdler ==
    /\ call = "none" /\ arg \in ChecksumBuffers /\ ret = <<>> /\ raised = "none"
    /\ CodecIdle

\* adler32(arg), one action per step of its loop: ret holds <<i, a, b>>
Adler32Start ==
    /\ call = "none"
    /\ call' = "adler32:loop"
    /\ ret' = <<0, 1, 0>>
    /\ raised' = "none"
    /\ UNCHANGED <<arg, codecVars>>

Adler32Step ==
    /\ call = "adler32:loop"
    /\ ret[1] < Len(arg)
    /\ LET ab == AdlerStep(<<ret[2], ret[3]>>, arg[ret[1] + 1])
       IN  ret' = <<ret[1] + 1, ab[1], ab[2]>>
    /\ UNCHANGED <<call, arg, raised, codecVars>>

Adler32Return ==
    /\ call = "adler32:loop"
    /\ ret[1] >= Len(arg)
    /\ call' = "adler32"
    /\ ret' = AdlerResult(<<ret[2], ret[3]>>)
    /\ UNCHANGED <<arg, raised, codecVars>>

NextAdler == Adler32Start \/ Adler32Step \/ Adler32Return

SpecAdler == InitAdler /\ [][NextAdler]_vars

----------------------------------------------------------------------------
(* encryptSave and decryptSave as steps *)

HelperIdle == call = "off" /\ arg = <<>> /\ ret = <<>> /\ raised = "none"

CodecStart ==
    /\ userID \in CodecIds /\ libs \in BOOLEAN /\ inflateTail \in BOOLEAN
    /\ cipherIn = <<>> /\ decrypted = <<>> /\ pt = <<>> /\ padOK = TRUE
    /\ trimIdx = 0 /\ inflated = <<>> /\ trimUsed = 0 /\ inflateLog = <<>>
    /\ outcome = "none" /\ output = <<>>

\* encryptSave(text, userID), whole
EncryptSave ==
    /\ pc = "text"
    /\ IF userID = <<>>
       THEN /\ outcome' = "MissingIdentity" /\ pc' = "encryptFailed"
            /\ UNCHANGED <<file, cipherIn>>
       ELSE IF ~libs
       THEN /\ outcome' = "PrimitivesUnavailable" /\ pc' = "encryptFailed"
            /\ UNCHANGED <<file, cipherIn>>
       ELSE /\ cipherIn' = EncryptPlain(text)
            /\ file' = EncryptBytes(EncryptPlain(text), userID)
            /\ outcome' = "blob" /\ pc' = "encrypted"
    /\ UNCHANGED <<helperVars, userID, libs, inflateTail, text, decrypted, pt, padOK,
                   trimIdx, inflated, trimUsed, inflateLog, output>>

\* decryptSave(file, userID) up to the trim loop
DecryptBegin ==
    /\ pc \in {"file", "encrypted"}
    /\ IF userID = <<>>
       THEN /\ outcome' = "MissingIdentity" /\ pc' = "decryptFailed"
            /\ UNCHANGED <<decrypted, pt, padOK, trimIdx>>
       ELSE IF ~libs
       THEN /\ outcome' = "PrimitivesUnavailable" /\ pc' = "decryptFailed"
            /\ UNCHANGED <<decrypted, pt, padOK, trimIdx>>
       ELSE LET plain == DecryptBytes(file, userID)
            IN  /\ decrypted' = plain
                /\ pt' = pkcs7Unpad(plain)
                /\ padOK' = (plain = <<>> \/ PadMatches(plain))
                /\ trimIdx' = 1
                /\ outcome' = "none" /\ pc' = "trim"
    /\ UNCHANGED <<helperVars, userID, libs, inflateTail, text, file, cipherIn,
                   inflated, trimUsed, inflateLog, output>>

\* one round of for (let trim of trimOptions)
DecryptTryTrim ==
    /\ pc = "trim"
    /\ LET trim == TrimOptions[trimIdx]
           att == TrimAttempt(pt, trim, inflateTail)
       IN  /\ inflateLog' = IF att.called THEN Append(inflateLog, trim) ELSE inflateLog
           /\ inflated' = IF att.ok THEN <<att.data>> ELSE inflated
           /\ trimUsed' = IF att.ok THEN trim ELSE trimUsed
           /\ trimIdx' = IF att.ok THEN trimIdx ELSE trimIdx + 1
           /\ pc' = IF att.ok \/ trimIdx = Len(TrimOptions) THEN "after" ELSE "trim"
    /\ UNCHANGED <<helperVars, userID, libs, inflateTail, text, file, cipherIn,
                   decrypted, pt, padOK, outcome, output>>

\* after the loop: throw, or decode the inflated bytes and return
DecryptFinish ==
    /\ pc = "after"
    /\ IF inflated = <<>>
       THEN /\ outcome' = "DecompressFailure" /\ pc' = "decryptFailed"
            /\ UNCHANGED output
       ELSE /\ outcome' = "text" /\ pc' = "done"
            /\ output' = TextDecode(inflated[1])
    /\ UNCHANGED <<helperVars, userID, libs, inflateTail, text, file, cipherIn,
                   decrypted, pt, padOK, trimIdx, inflated, trimUsed, inflateLog>>

InitRoundTrip ==
    /\ HelperIdle /\ CodecStart
    /\ text \in Texts /\ file = <<>> /\ pc = "text"

NextRoundTrip == EncryptSave \/ DecryptBegin \/ DecryptTryTrim \/ DecryptFinish

SpecRoundTrip == InitRoundTrip /\ [][NextRoundTrip]_vars

InitDecode ==
    /\ HelperIdle /\ CodecStart
    /\ text = <<>> /\ file \in SaveFiles /\ pc = "file"

NextDecode == DecryptBegin \/ DecryptTryTrim \/ DecryptFinish

SpecDecode == InitDecode /\ [][NextDecode]_vars

\* pkcs7Unpad on its own and inside decryptSave
SpecUnpad == (InitPad \/ InitDecode) /\ [][NextPad \/ NextDecode]_vars

----------------------------------------------------------------------------
(* Reference definitions for key derivation, written from the format's     *)
(* description and computed differently from the model of the code         *)

BitsOf(a) == {k \in 0..7 : (a \div (2 ^ k)) % 2 = 1}

RECURSIVE SumPow2(_)
SumPow2(S) ==
    IF S = {} THEN 0
    ELSE LET k == CHOOSE x \in S : TRUE IN (2 ^ k) + SumPow2(S \ {k})

RefXor(a, b) == SumPow2((BitsOf(a) \cup BitsOf(b)) \ (BitsOf(a) \cap BitsOf(b)))

RefUtf16LE(str) ==
    [i \in 1..(2 * Len(str)) |->
        IF i % 2 = 1 THEN str[(i + 1) \div 2] % 256 ELSE str[i \div 2] \div 256]

\* one Horner step on four 16-bit limbs, the carry out of the top limb dropped:
\* (value * 10 + d) mod 2^64
RECURSIVE LimbStep(_, _)
LimbStep(limbs, carry) ==
    IF limbs = <<>> THEN <<>>
    ELSE LET v == Head(limbs) * 10 + carry
         IN  <<v % 65536>> \o LimbStep(Tail(limbs), v \div 65536)

RECURSIVE DecimalMod64(_, _)
DecimalMod64(str, limbs) ==
    IF str = <<>> THEN limbs
    ELSE DecimalMod64(Tail(str), LimbStep(limbs, Head(str) - 48))

RefSteamLE64(str) ==
    LET limbs == DecimalMod64(str, <<0, 0, 0, 0>>)
    IN  [i \in 1..8 |->
            IF i % 2 = 1 THEN limbs[(i + 1) \div 2] % 256 ELSE limbs[i \div 2] \div 256]

RefIsSteam(str) == Len(str) >= 17 /\ \A i \in 1..Len(str) : str[i] \in 48..57

RefIdBytes(str) == IF RefIsSteam(str) THEN RefSteamLE64(str) ELSE RefUtf16LE(str)

RefKey(str) ==
    LET b == RefIdBytes(str)
    IN  [i \in 1..32 |-> IF i <= Len(b) THEN RefXor(BASE_KEY[i], b[i]) ELSE BASE_KEY[i]]

Truncate32(b) == SubSeq(b, 1, Min(32, Len(b)))

ZeroExtend32(b) == [i \in 1..32 |-> IF i <= Len(b) THEN b[i] ELSE 0]

----------------------------------------------------------------------------
(* Claims about key derivation *)

\* C3 as stated: deriveKey of the empty identity fails with InvalidIdentity
\* and returns no key.
C3_Original ==
    (call = "deriveKey" /\ arg = <<>>) => (raised = "InvalidIdentity" /\ ret = <<>>)

\* C3 amended: deriveKey does not check for emptiness; called with the empty
\* identity it raises nothing and returns the unmodified 32-byte base constant.
C3_EmptyIdentityYieldsBaseKey ==
    (call = "deriveKey" /\ arg = <<>>) => (raised = "none" /\ ret = BASE_KEY)

C3_Witness == call = "deriveKey" /\ arg = <<>> /\ Len(ret) = 32

\* C4 as stated: two identities have the same derived key only if their
\* byte encodings, truncated to 32 bytes, are the same byte sequence.
C4_Original ==
    (call = "deriveKeys" /\ ret[1] = ret[2])
        => Truncate32(RefIdBytes(arg[1])) = Truncate32(RefIdBytes(arg[2]))

\* C4 amended: two identities have the same derived key only if their byte
\* encodings, truncated to 32 bytes and then zero-extended to 32 bytes, are
\* the same; encodings that differ only by trailing zero bytes do collide.
C4_SameKeyOnlyIfSameUpToZeros ==
    (call = "deriveKeys" /\ ret[1] = ret[2])
        => ZeroExtend32(Truncate32(RefIdBytes(arg[1])))
             = ZeroExtend32(Truncate32(RefIdBytes(arg[2])))

\* a Steam identity and an Epic identity of different encoded length collide
C4_Witness ==
    /\ call = "deriveKeys" /\ ret[1] = ret[2]
    /\ SteamPattern(arg[1]) /\ ~SteamPattern(arg[2])
    /\ Len(RefIdBytes(arg[1])) # Len(RefIdBytes(arg[2]))

\* C5: for every non-empty identity deriveKey returns exactly 32 bytes equal
\* to the reference key (base XOR identity bytes, 8-byte little-endian value
\* mod 2^64 for 17 or more ASCII digits, UTF-16LE otherwise), and on the
\* Steam path only bytes 0..7 can differ from the base constant.
C5_DeriveKeyMatchesReference ==
    (call = "deriveKey" /\ arg # <<>>) =>
        /\ Len(ret) = 32
        /\ ret = RefKey(arg)
        /\ RefIsSteam(arg) => \A i \in 9..32 : ret[i] = BASE_KEY[i]

\* twenty nines: a Steam identity above 2^64, whose value wraps
C5_Witness ==
    /\ call = "deriveKey" /\ arg = Fill(20, 57)
    /\ SubSeq(ret, 1, 8) # SubSeq(BASE_KEY, 1, 8)
    /\ SubSeq(ret, 1, 8) = SubSeq(RefKey(arg), 1, 8)

----------------------------------------------------------------------------
(* Claims about padding and the checksum *)

\* C6: for every buffer of length 0..64, pkcs7Pad appends p = 16 - (len mod 16)
\* bytes of value p, 1 <= p <= 16 (a full block when aligned), and
\* pkcs7Unpad(pkcs7Pad(buf)) is buf.
C6_PadUnpadInverse ==
    LET p == 16 - (Len(arg) % 16)
    IN  /\ call = "pkcs7Pad" =>
            /\ p >= 1 /\ p <= 16
            /\ Len(ret) = Len(arg) + p
            /\ Len(ret) % 16 = 0
            /\ SubSeq(ret, 1, Len(arg)) = arg
            /\ \A i \in (Len(arg) + 1)..Len(ret) : ret[i] = p
        /\ call = "padUnpad" => ret = arg

\* an aligned buffer of the largest length that itself ends like padding
C6_Witness ==
    call = "padUnpad" /\ Len(arg) = 64 /\ arg[64] = 2 /\ arg[63] = 2 /\ ret = arg

\* sum over i in lo..hi of w(i) * buf[i], with w(i) = 1 or the distance from
\* the end of the buffer
RECURSIVE SumRange(_, _, _, _)
SumRange(buf, lo, hi, weighted) ==
    IF lo > hi THEN 0
    ELSE IF lo = hi
         THEN (IF weighted THEN Len(buf) - lo + 1 ELSE 1) * buf[lo]
    ELSE LET mid == (lo + hi) \div 2
         IN  SumRange(buf, lo, mid, weighted) + SumRange(buf, mid + 1, hi, weighted)

SumBytes(buf) == SumRange(buf, 1, Len(buf), FALSE)
WeightedSum(buf) == SumRange(buf, 1, Len(buf), TRUE)

\* Adler-32 in closed form: a = 1 + sum of the bytes, b = n + sum of the
\* bytes weighted by their distance from the end, both modulo 65521
RefAdlerA(buf) == (1 + SumBytes(buf)) % 65521
RefAdlerB(buf) == (Len(buf) + WeightedSum(buf)) % 65521

\* C7: adler32 is the standard Adler-32, b * 65536 + a as an unsigned 32-bit
\* value (never negative, also when b >= 32768); the empty buffer gives 1 and
\* "Wikipedia" gives 0x11E60398.
C7_AdlerIsStandard ==
    call = "adler32" =>
        /\ ret = <<RefAdlerB(arg), RefAdlerA(arg)>>
        /\ ret[1] \in 0..65535 /\ ret[2] \in 0..65535
        /\ arg = <<>> => ret = <<0, 1>>
        /\ arg = Wikipedia => ret = <<4582, 920>>

\* a buffer whose b sum has its top bit set
C7_Witness ==
    call = "adler32" /\ ret[1] >= 32768 /\ arg = Fill(Len(arg), 255)

----------------------------------------------------------------------------
(* Claims about encryptSave and decryptSave *)

\* text without a leading byte order mark
NoLeadingBOM(str) == str = <<>> \/ str[1] # 65279

\* a decryptSave call on the file encryptSave produced has ended
RoundTripEnded == pc \in {"done", "decryptFailed"} /\ cipherIn # <<>>

\* C1: for every text and every non-empty identity, decoding what encode
\* produced, with the same identity, returns exactly the text.
C1_RoundTrip ==
    RoundTripEnded => (outcome = "text" /\ output = text)

\* the round trip does hold for text that does not start with U+FEFF
RoundTripWithoutLeadingBOM ==
    (RoundTripEnded /\ NoLeadingBOM(text)) => (outcome = "text" /\ output = text)

\* C2: the buffer encode passes to the cipher, once unpadded, is the
\* compressed bytes followed by exactly 8 trailer bytes: the Adler-32 of the
\* UTF-8 payload and its byte length, each as 4 little-endian bytes.
C2_ContainerLayout ==
    cipherIn # <<>> =>
        LET n == Len(cipherIn)
            p == cipherIn[n]
            payload == TextEncode(text)
            comp == Deflate(payload)
            a == RefAdlerA(payload)
            b == RefAdlerB(payload)
            len == Len(payload)
        IN  /\ n % 16 = 0 /\ p >= 1 /\ p <= 16
            /\ \A i \in (n - p + 1)..n : cipherIn[i] = p
            /\ n - p = Len(comp) + 8
            /\ SubSeq(cipherIn, 1, n - p) =
                  comp \o <<a % 256, a \div 256, b % 256, b \div 256>>
                       \o <<len % 256, (len \div 256) % 256, (len \div 65536) % 256, 0>>

\* a text whose character count, byte length and compressed length all differ
C2_Witness ==
    /\ pc = "encrypted" /\ text = <<97, 233>>
    /\ Len(TextEncode(text)) = 3
    /\ SubSeq(cipherIn, Len(Deflate(TextEncode(text))) + 5,
              Len(Deflate(TextEncode(text))) + 8) = <<3, 0, 0, 0>>

\* the candidate of a trim: unpadded[0 .. len - trim), empty when too short
RefCandidate(u, trim) == IF Len(u) > trim THEN SubSeq(u, 1, Len(u) - trim) ELSE <<>>

StartsWithMagic(c) == c # <<>> /\ c[1] = 120

\* the candidate of trim is non-empty, starts with 0x78 and inflates
Accepts(u, trim) ==
    /\ StartsWithMagic(RefCandidate(u, trim))
    /\ Inflate(RefCandidate(u, trim), inflateTail) # <<>>

DecryptEnded == pc \in {"done", "decryptFailed"}

\* C8: with a non-empty identity and the libraries loaded, decode returns
\* text exactly when the candidate of trim 4 or of trim 8 is non-empty, starts
\* with 0x78 and inflates; otherwise it fails with DecompressFailure and nothing
\* else, in particular for unpadded buffers of length 0..4 and buffers not
\* starting with 0x78; inflate is never called on a candidate failing the
\* magic-byte check.
C8_TextIffSomeCandidateInflates ==
    /\ (DecryptEnded /\ userID # <<>> /\ libs) =>
          /\ (outcome = "text") <=> (Accepts(pt, 4) \/ Accepts(pt, 8))
          /\ outcome \in {"text", "DecompressFailure"}
          /\ (Len(pt) <= 4 \/ pt[1] # 120) => outcome = "DecompressFailure"
    /\ \A i \in 1..Len(inflateLog) : StartsWithMagic(RefCandidate(pt, inflateLog[i]))

\* text returned from the trim-8 candidate after the trim-4 candidate failed
C8_Witness ==
    /\ pc = "done" /\ outcome = "text" /\ trimUsed = 8 /\ inflateLog = <<4, 8>>
    /\ ~Accepts(pt, 4) /\ Accepts(pt, 8)

\* C9: the candidates are tried in the order trim 4, trim 8, each at most
\* once; when the trim-4 candidate inflates the result is its inflation and
\* inflate is never invoked on the trim-8 candidate; the trim-8 candidate is
\* tried only after the trim-4 candidate was skipped or failed to inflate.
C9_TrimOrder ==
    /\ inflateLog \in {<<>>, <<4>>, <<8>>, <<4, 8>>}
    /\ (pc = "trim" /\ trimIdx = 2) => ~Accepts(pt, 4)
    /\ (\E i \in 1..Len(inflateLog) : inflateLog[i] = 8) => ~Accepts(pt, 4)
    /\ (pc \in {"after", "done"} /\ Accepts(pt, 4)) =>
          /\ trimUsed = 4 /\ inflateLog = <<4>>
          /\ inflated = Inflate(RefCandidate(pt, 4), inflateTail)
          /\ pc = "done" => output = TextDecode(Inflate(RefCandidate(pt, 4), inflateTail)[1])

\* both candidates would inflate, and the first one won
C9_Witness ==
    /\ pc = "done" /\ trimUsed = 4 /\ inflateLog = <<4>>
    /\ Accepts(pt, 4) /\ Accepts(pt, 8)

\* the final p bytes of buf are all p, p being its last byte
RefPaddingValid(buf) ==
    LET n == Len(buf)
        p == buf[n]
    IN  p <= n /\ \A i \in (n - p + 1)..n : buf[i] = p

\* decryptSave got past the cipher
DecryptUnpadded ==
    pc \in {"trim", "after", "done"} \/ (pc = "decryptFailed" /\ outcome = "DecompressFailure")

\* C10: on a non-empty buffer pkcs7Unpad raises nothing; when the final p
\* bytes are not all p (also when p exceeds the length) it returns the buffer
\* unchanged, otherwise the buffer shortened by p bytes.  In decode a padding
\* mismatch never aborts the call: the trim loop runs on the full decrypted
\* buffer and the call ends with text or DecompressFailure.
C10_PaddingSoftFailure ==
    /\ (call = "pkcs7Unpad" /\ arg # <<>>) =>
          /\ raised = "none"
          /\ IF RefPaddingValid(arg)
             THEN ret = SubSeq(arg, 1, Len(arg) - arg[Len(arg)])
             ELSE ret = arg /\ Len(ret) = Len(arg)
    /\ (DecryptUnpadded /\ decrypted # <<>> /\ ~RefPaddingValid(decrypted)) =>
          /\ pt = decrypted /\ ~padOK
          /\ trimIdx >= 1
          /\ DecryptEnded => (outcome \in {"text", "DecompressFailure"}
                              /\ (trimUsed # 0 \/ trimIdx = 3))

\* a save whose padding does not match and that still decodes to text
C10_Witness ==
    /\ pc = "done" /\ outcome = "text" /\ decrypted # <<>>
    /\ ~RefPaddingValid(decrypted) /\ pt = decrypted /\ ~padOK

====
